---- MODULE Spec2Model ----
(***************************************************************************)
(* A model of captoolkit's inverse-barometer correction (ibecor.py) and of *)
(* the tide toolkit's projection dispatcher (convert_xy_ll.py).            *)
(*                                                                         *)
(* Real numbers are exact rationals <<n, d>> in lowest terms with d > 0,   *)
(* so that interpolation results such as 1.5 are ordinary values.  Arrays  *)
(* are 1-based sequences; pixel indices keep the source's 0-based values.  *)
(***************************************************************************)
EXTENDS Integers, Sequences, FiniteSets

VARIABLES
    pc,        \* position of the script / of the unit driver
    IBEFILE,   \* contents of the cube file: [lon, lat, time, ibe]
    SUBSET_, t1, t2,          \* the subsetting switches of the script
    x_ibe, y_ibe, t_ibe, z_ibe,
    files, inputs, disk,      \* file list, the files as given, the files now
    apply_, epoch,
    infile,    \* index in files of the file being processed (0: none yet)
    x, y, t, t_orig, h_ibe,   \* the per-file arrays of the main loop
    call, ret  \* unit drivers: the arguments of a call and what it returned

mainvars == <<IBEFILE, SUBSET_, t1, t2, x_ibe, y_ibe, t_ibe, z_ibe, files,
              inputs, disk, apply_, epoch, infile, x, y, t, t_orig, h_ibe>>
vars == <<pc, mainvars, call, ret>>

----------------------------------------------------------------------------
(* Bounds of the model *)

\* most files on one command line
NFiles == 2

----------------------------------------------------------------------------
(* Exact arithmetic *)

Abs(a) == IF a < 0 THEN -a ELSE a

RECURSIVE GCD(_, _)
GCD(a, b) == IF b = 0 THEN a ELSE GCD(b, a % b)

RNorm(n, d) ==
    LET g == GCD(Abs(n), Abs(d))
        s == IF d < 0 THEN -1 ELSE 1
    IN  <<(s * n) \div g, (s * d) \div g>>

R(n) == <<n, 1>>
RAdd(a, b) == RNorm(a[1] * b[2] + b[1] * a[2], a[2] * b[2])
RSub(a, b) == RNorm(a[1] * b[2] - b[1] * a[2], a[2] * b[2])
RMul(a, b) == RNorm(a[1] * b[1], a[2] * b[2])
RDiv(a, b) == RNorm(a[1] * b[2], a[2] * b[1])
RLt(a, b) == a[1] * b[2] < b[1] * a[2]
RLe(a, b) == a[1] * b[2] <= b[1] * a[2]
RFloor(a) == a[1] \div a[2]

Reverse(s) == [i \in 1..Len(s) |-> s[Len(s) + 1 - i]]

RECURSIVE RSum(_)
RSum(s) == IF s = <<>> THEN R(0) ELSE RAdd(s[1], RSum(Tail(s)))

Min(S) == CHOOSE m \in S : \A o \in S : m <= o
Max(S) == CHOOSE m \in S : \A o \in S : m >= o

----------------------------------------------------------------------------
(* datetime, as far as secs_to_hours uses it *)

IsLeap(yr) == yr % 4 = 0 /\ (yr % 100 # 0 \/ yr % 400 = 0)

DaysInMonth(yr, mo) ==
    IF mo = 2 THEN (IF IsLeap(yr) THEN 29 ELSE 28)
    ELSE IF mo \in {4, 6, 9, 11} THEN 30 ELSE 31

\* dt.datetime(*e) raises ValueError unless e is a calendar instant
ValidDate(e) ==
    /\ e[1] \in 1..9999
    /\ e[2] \in 1..12
    /\ e[3] \in 1..DaysInMonth(e[1], e[2])
    /\ e[4] \in 0..23
    /\ e[5] \in 0..59
    /\ e[6] \in 0..59

DaysBeforeYear(yr) ==
    (yr - 1) * 365 + (yr - 1) \div 4 - (yr - 1) \div 100 + (yr - 1) \div 400

RECURSIVE DaysBeforeMonth(_, _)
DaysBeforeMonth(yr, mo) ==
    IF mo = 1 THEN 0
    ELSE DaysBeforeMonth(yr, mo - 1) + DaysInMonth(yr, mo - 1)

toordinal(e) == DaysBeforeYear(e[1]) + DaysBeforeMonth(e[1], e[2]) + e[3]

SecondOfDay(e) == e[4] * 3600 + e[5] * 60 + e[6]

\* a - b as a timedelta: whole days and 0 <= seconds < 86400
timedelta(a, b) ==
    LET dd == toordinal(a) - toordinal(b)
        ss == SecondOfDay(a) - SecondOfDay(b)
    IN  IF ss < 0 THEN [days |-> dd - 1, seconds |-> ss + 86400]
        ELSE [days |-> dd, seconds |-> ss]

None == <<>>

\* the same with the epochs subtracted the other way round
secs_to_hours_swapped(secs, epoch1, epoch2) ==
    LET e2 == IF epoch2 # None THEN epoch2 ELSE epoch1
        d  == timedelta(epoch1, e2)
    IN  RSub(RNorm(secs, 3600),
             RAdd(R(d.days * 24), RNorm(d.seconds, 3600)))

\* (secs - secs_btw_epochs) / 3600.  The timedelta keeps days and seconds
\* apart as datetime does, and the division by 3600 is taken term by term:
\* secs/3600 - (days*24 + seconds/3600), the same rational number.
secs_to_hours(secs, epoch1, epoch2) ==
    LET e2 == IF epoch2 # None THEN epoch2 ELSE epoch1
        d  == timedelta(e2, epoch1)
    IN  RSub(RNorm(secs, 3600),
             RAdd(R(d.days * 24), RNorm(d.seconds, 3600)))

----------------------------------------------------------------------------
(* wrap_to_180 *)

wrap_to_180(lon) ==
    [i \in 1..Len(lon) |-> IF lon[i] > 180 THEN lon[i] - 360 ELSE lon[i]]

----------------------------------------------------------------------------
(* interp3d *)

\* np.interp promises a result only for non-decreasing sample points
NonDecreasing(xp) == \A i \in 1..Len(xp) - 1 : xp[i] <= xp[i + 1]

\* the linear piece on [xp[j], xp[j+1]]: slope * (x - xp[j]) + fp[j]
Bracket(xv, xp, fp, j) ==
    RAdd(RMul(RNorm(fp[j + 1] - fp[j], xp[j + 1] - xp[j]),
              RSub(xv, R(xp[j]))),
         R(fp[j]))

np_interp_sorted(xv, xp, fp) ==
    LET M == Len(xp)
    IN  IF RLt(xv, R(xp[1])) THEN R(fp[1])
        ELSE IF RLt(R(xp[M]), xv) THEN R(fp[M])
        ELSE LET j == Max({i \in 1..M : RLe(R(xp[i]), xv)})
             IN  IF j = M THEN R(fp[M])
                 ELSE IF R(xp[j]) = xv THEN R(fp[j])
                 ELSE Bracket(xv, xp, fp, j)

\* The values np.interp(x, xp, fp) can return.  For sample points that are
\* not non-decreasing the search may stop at either end or at any bracket,
\* whichever search the build of numpy uses.
np_interp(xv, xp, fp) ==
    IF NonDecreasing(xp) THEN {np_interp_sorted(xv, xp, fp)}
    ELSE {R(fp[1]), R(fp[Len(xp)])}
         \cup {R(fp[j]) : j \in {i \in 1..Len(xp) : R(xp[i]) = xv}}
         \cup {Bracket(xv, xp, fp, j) :
                 j \in {i \in 1..Len(xp) - 1 : xp[i] # xp[i + 1]}}

\* interp_pixels without the reversal of a decreasing axis
interp_pixels_noflip(grid_coords, interp_coord) ==
    np_interp(interp_coord, grid_coords,
              [i \in 1..Len(grid_coords) |-> i - 1])

interp_pixels(grid_coords, interp_coord) ==
    LET M == Len(grid_coords)
        grid_pixels == [i \in 1..M |-> i - 1]
        decreasing ==
            \A i \in 1..M - 1 : grid_coords[i + 1] - grid_coords[i] < 0
    IN  IF decreasing
        THEN np_interp(interp_coord, Reverse(grid_coords), Reverse(grid_pixels))
        ELSE np_interp(interp_coord, grid_coords, grid_pixels)

\* what map_coordinates' default mode='constant' reads outside the array
cval == 0

Corners ==
    <<<<0, 0, 0>>, <<0, 0, 1>>, <<0, 1, 0>>, <<0, 1, 1>>,
      <<1, 0, 0>>, <<1, 0, 1>>, <<1, 1, 0>>, <<1, 1, 1>>>>

\* ndimage.map_coordinates(v, coords, order=1) at one point: c holds the
\* three 0-based pixel coordinates
map_coordinates(v, c) ==
    LET dim == <<Len(v), Len(v[1]), Len(v[1][1])>>
        lo == [a \in 1..3 |-> RFloor(c[a])]
        fr == [a \in 1..3 |-> RSub(c[a], R(lo[a]))]
        W(a, o) == IF o = 0 THEN RSub(R(1), fr[a]) ELSE fr[a]
        At(k, j, i) ==
            IF k \in 0..dim[1] - 1 /\ j \in 0..dim[2] - 1 /\ i \in 0..dim[3] - 1
            THEN v[k + 1][j + 1][i + 1] ELSE cval
        Term(o) ==
            RMul(RMul(W(1, o[1]), RMul(W(2, o[2]), W(3, o[3]))),
                 R(At(lo[1] + o[1], lo[2] + o[2], lo[3] + o[3])))
    IN  IF \E a \in 1..3 : RLt(c[a], R(0)) \/ RLt(R(dim[a] - 1), c[a])
        THEN R(cval)
        ELSE RSum([n \in 1..8 |-> Term(Corners[n])])

\* interp3d_point with the last two axes paired with each other's targets
interp3d_point_crossed(xa, ya, za, v, xi, yi, zi) ==
    {map_coordinates(v, <<px, py, pz>>) :
        px \in interp_pixels(xa, xi),
        py \in interp_pixels(ya, zi),
        pz \in interp_pixels(za, yi)}

\* the values interp3d can return for one query point (xi, yi, zi)
interp3d_point(xa, ya, za, v, xi, yi, zi) ==
    {map_coordinates(v, <<px, py, pz>>) :
        px \in interp_pixels(xa, xi),
        py \in interp_pixels(ya, yi),
        pz \in interp_pixels(za, zi)}

\* all sequences whose n-th element is drawn from P[n]
RECURSIVE Choices(_, _)
Choices(P, n) ==
    IF n = 0 THEN {<<>>}
    ELSE {Append(s, v) : s \in Choices(P, n - 1), v \in P[n]}

\* interp3d over arrays of query points: the possible result arrays
interp3d(xa, ya, za, v, xi, yi, zi) ==
    LET P == [n \in 1..Len(xi) |->
                interp3d_point(xa, ya, za, v, xi[n], yi[n], zi[n])]
    IN  Choices(P, Len(xi))

----------------------------------------------------------------------------
(* The script ibecor.py: inputs *)

\* cube longitude axes as stored: increasing, in -180..180 or in 0..360
LonAxes == {<<-90, 0, 90>>, <<0, 90, 180, 270>>, <<-180, -60, 60, 180>>}
\* cube latitude axes: increasing or decreasing
LatAxes == {<<-80, -70, -60>>, <<-60, -70, -80>>}
\* cube time axes, hours since 1900: the years 2000, 2002, 2004 and
\* 2002, 2006, 2010 as the script's hours -> years conversion counts them
TimeAxes == {<<876000, 893520, 911040>>, <<893520, 928560, 963600>>}
\* requested time windows (t1, t2), in years
Windows == {<<2002, 2010>>, <<2001, 2003>>, <<2011, 2012>>, <<1990, 2020>>}
\* reference epochs of the input seconds (-e); the last is no calendar date
Epochs == {<<1970, 1, 1, 0, 0, 0>>, <<2000, 1, 1, 0, 0, 0>>,
           <<1970, 2, 30, 0, 0, 0>>}

\* the 3-D field ibe(time, lat, lon) of a cube with the given axes
IbeField(ta, ya, xa) ==
    [k \in 1..Len(ta) |-> [j \in 1..Len(ya) |-> [i \in 1..Len(xa) |->
        16 * k + 4 * j * j - 8 * i]]]

\* input files (HDF5): lon, lat, t_sec, h_cor and, in the last, an 'h_ibe'
\* left by an earlier run
InputCatalog ==
    << [lon |-> <<0>>, lat |-> <<-70>>, t_sec |-> <<1007683200>>,
        h_cor |-> <<R(100)>>],
       [lon |-> <<270, 45>>, lat |-> <<-75, -65>>,
        t_sec |-> <<1039219200, 63072000>>, h_cor |-> <<R(7), R(-3)>>],
       [lon |-> <<-90, 181>>, lat |-> <<-85, -60>>,
        t_sec |-> <<0, 1133827200>>, h_cor |-> <<R(0), R(12)>>],
       [lon |-> <<90>>, lat |-> <<-60>>, t_sec |-> <<142041600>>,
        h_cor |-> <<R(5)>>, h_ibe |-> <<R(1)>>] >>

\* the file lists of a run: up to NFiles consecutive catalog entries
FileLists ==
    {SubSeq(InputCatalog, w[1], w[1] + w[2] - 1) :
        w \in {v \in (1..Len(InputCatalog)) \X (1..NFiles) :
                  v[1] + v[2] - 1 <= Len(InputCatalog)}}

\* file names: the input 'name.h5' and os.path.splitext(name)[0] + '_IBE.h5'
InName(f) == <<f, ".h5">>
OutName(f) == <<f, "_IBE.h5">>

CubeFiles ==
    {[lon |-> xa, lat |-> ya, time |-> ta, ibe |-> IbeField(ta, ya, xa)] :
        xa \in LonAxes, ya \in LatAxes, ta \in TimeAxes}

NoCall == <<>>

Init ==
    /\ pc = "load"
    /\ IBEFILE \in CubeFiles
    /\ SUBSET_ \in BOOLEAN
    /\ \E w \in Windows :
         /\ t1 = w[1]
         /\ t2 = w[2]
         /\ (~SUBSET_ => w = <<2002, 2010>>)
    /\ x_ibe = <<>> /\ y_ibe = <<>> /\ t_ibe = <<>> /\ z_ibe = <<>>
    /\ inputs \in FileLists
    /\ files = [f \in 1..Len(inputs) |-> InName(f)]
    /\ disk = [n \in {InName(f) : f \in 1..Len(inputs)} |-> inputs[n[1]]]
    /\ apply_ \in BOOLEAN
    /\ epoch \in Epochs
    /\ infile = 0
    /\ x = <<>> /\ y = <<>> /\ t = <<>> /\ t_orig = <<>> /\ h_ibe = <<>>
    /\ call = NoCall /\ ret = NoCall

----------------------------------------------------------------------------
(* The script ibecor.py: steps *)

\* lines 253-257: read the axes and open the field
LoadCube ==
    /\ pc = "load"
    /\ x_ibe' = IBEFILE.lon
    /\ y_ibe' = IBEFILE.lat
    /\ t_ibe' = IBEFILE.time
    /\ z_ibe' = IBEFILE.ibe
    /\ pc' = "subset"
    /\ UNCHANGED <<IBEFILE, SUBSET_, t1, t2, files, inputs, disk, apply_,
                   epoch, infile, x, y, t, t_orig, h_ibe, call, ret>>

\* t_year = (t_ibe/8760.) + 1900
t_year(ta) == [i \in 1..Len(ta) |-> RAdd(RNorm(ta[i], 8760), R(1900))]

\* the window test without its upper limit
InWindow_open(ta, lo, hi) ==
    {i \in 1..Len(ta) : RLe(R(lo), t_year(ta)[i])}

\* k, = np.where((t_year >= t1) & (t_year <= t2)), as 1-based positions
InWindow(ta, lo, hi) ==
    {i \in 1..Len(ta) : RLe(R(lo), t_year(ta)[i]) /\ RLe(t_year(ta)[i], R(hi))}

\* lines 260-282 and 350-352: the time window is cut out once, before the
\* loop; k[0] raises IndexError when no time lies in the window
SubsetCube ==
    /\ pc = "subset"
    /\ IF SUBSET_
       THEN LET k == InWindow(t_ibe, t1, t2)
            IN  IF k = {}
                THEN /\ pc' = "error"
                     /\ UNCHANGED <<t_ibe, z_ibe>>
                ELSE /\ t_ibe' = SubSeq(t_ibe, Min(k), Max(k))
                     /\ z_ibe' = SubSeq(z_ibe, Min(k), Max(k))
                     /\ pc' = "for"
       ELSE /\ pc' = "for"
            /\ UNCHANGED <<t_ibe, z_ibe>>
    /\ UNCHANGED <<IBEFILE, SUBSET_, t1, t2, x_ibe, y_ibe, files, inputs,
                   disk, apply_, epoch, infile, x, y, t, t_orig, h_ibe,
                   call, ret>>

\* line 355: for infile in files
ForFile ==
    /\ pc = "for"
    /\ IF infile < Len(files)
       THEN infile' = infile + 1 /\ pc' = "get_xyt"
       ELSE infile' = infile /\ pc' = "exit"
    /\ UNCHANGED <<IBEFILE, SUBSET_, t1, t2, x_ibe, y_ibe, t_ibe, z_ibe,
                   files, inputs, disk, apply_, epoch, x, y, t, t_orig,
                   h_ibe, call, ret>>

\* lines 358-360: x, y, t = get_xyt(...); t_orig = t.copy()
GetXyt ==
    /\ pc = "get_xyt"
    /\ IF files[infile] \in DOMAIN disk
       THEN /\ x' = disk[files[infile]].lon
            /\ y' = disk[files[infile]].lat
            /\ t' = disk[files[infile]].t_sec
            /\ t_orig' = disk[files[infile]].t_sec
            /\ pc' = "secs_to_hours"
       ELSE /\ pc' = "error"
            /\ UNCHANGED <<x, y, t, t_orig>>
    /\ UNCHANGED <<IBEFILE, SUBSET_, t1, t2, x_ibe, y_ibe, t_ibe, z_ibe,
                   files, inputs, disk, apply_, epoch, infile, h_ibe,
                   call, ret>>

\* the epoch of the cube's time axis, line 364
CubeEpoch == <<1900, 1, 1, 0, 0, 0>>

\* line 364: t = secs_to_hours(t, epoch1=epoch, epoch2=(1900,1,1,0,0,0))
ConvertTime ==
    /\ pc = "secs_to_hours"
    /\ IF ValidDate(epoch)
       THEN /\ t' = [n \in 1..Len(t) |-> secs_to_hours(t[n], epoch, CubeEpoch)]
            /\ pc' = "wrap"
       ELSE /\ pc' = "error"
            /\ t' = t
    /\ UNCHANGED <<IBEFILE, SUBSET_, t1, t2, x_ibe, y_ibe, t_ibe, z_ibe,
                   files, inputs, disk, apply_, epoch, infile, x, y, t_orig,
                   h_ibe, call, ret>>

\* lines 367-368: both the cube's axis and the points are wrapped, in place
WrapLons ==
    /\ pc = "wrap"
    /\ x_ibe' = wrap_to_180(x_ibe)
    /\ x' = wrap_to_180(x)
    /\ pc' = "interp3d"
    /\ UNCHANGED <<IBEFILE, SUBSET_, t1, t2, y_ibe, t_ibe, z_ibe, files,
                   inputs, disk, apply_, epoch, infile, y, t, t_orig, h_ibe,
                   call, ret>>

ToR(s) == [n \in 1..Len(s) |-> R(s[n])]

\* line 372: h_ibe = interp3d(t_ibe, y_ibe, x_ibe, z_ibe, t, y, x)
Interpolate ==
    /\ pc = "interp3d"
    /\ h_ibe' \in interp3d(t_ibe, y_ibe, x_ibe, z_ibe, t, ToR(y), ToR(x))
    /\ pc' = IF apply_ THEN "write_h" ELSE "export"
    /\ UNCHANGED <<IBEFILE, SUBSET_, t1, t2, x_ibe, y_ibe, t_ibe, z_ibe,
                   files, inputs, disk, apply_, epoch, infile, x, y, t,
                   t_orig, call, ret>>

\* the height variable of the HDF5 files (ZVAR)
zvar == "h_cor"

\* f[zvar][:] - h_ibe, written back with the correction added instead
CorrectedAdd(h, cor) == [n \in 1..Len(h) |-> RAdd(h[n], cor[n])]

\* f[zvar][:] - h_ibe
Corrected(h, cor) == [n \in 1..Len(h) |-> RSub(h[n], cor[n])]

\* lines 377-378: f[zvar][:] = f[zvar][:] - h_ibe
WriteHeight ==
    /\ pc = "write_h"
    /\ disk' = [disk EXCEPT ![files[infile]][zvar] = Corrected(@, h_ibe)]
    /\ pc' = "write_h_ibe"
    /\ UNCHANGED <<IBEFILE, SUBSET_, t1, t2, x_ibe, y_ibe, t_ibe, z_ibe,
                   files, inputs, apply_, epoch, infile, x, y, t, t_orig,
                   h_ibe, call, ret>>

\* a file with one more dataset
WithDataset(file, name, val) ==
    [d \in DOMAIN file \cup {name} |-> IF d = name THEN val ELSE file[d]]

\* line 379: f['h_ibe'] = h_ibe creates the dataset; h5py raises when the
\* file already holds that name, and the with block closes the file
WriteHibe ==
    /\ pc = "write_h_ibe"
    /\ IF "h_ibe" \in DOMAIN disk[files[infile]]
       THEN /\ pc' = "error"
            /\ disk' = disk
       ELSE /\ disk' = [disk EXCEPT
                          ![files[infile]] = WithDataset(@, "h_ibe", h_ibe)]
            /\ pc' = "rename"
    /\ UNCHANGED <<IBEFILE, SUBSET_, t1, t2, x_ibe, y_ibe, t_ibe, z_ibe,
                   files, inputs, apply_, epoch, infile, x, y, t, t_orig,
                   h_ibe, call, ret>>

\* the files on disk after os.rename(src, dst)
Renamed(d, src, dst) ==
    [n \in (DOMAIN d \ {src}) \cup {dst} |-> IF n = dst THEN d[src] ELSE d[n]]

\* lines 381-382: outfile = splitext(infile)[0] + '_IBE.h5'; os.rename
Rename ==
    /\ pc = "rename"
    /\ disk' = Renamed(disk, files[infile], OutName(files[infile][1]))
    /\ pc' = "print"
    /\ UNCHANGED <<IBEFILE, SUBSET_, t1, t2, x_ibe, y_ibe, t_ibe, z_ibe,
                   files, inputs, apply_, epoch, infile, x, y, t, t_orig,
                   h_ibe, call, ret>>

\* lines 387-391: savehdf5(outfile, {xvar: x, yvar: y, tvar: t_orig,
\* 'h_ibe': h_ibe}), which truncates or creates outfile
Export ==
    /\ pc = "export"
    /\ LET out == OutName(files[infile][1])
           d == [lon |-> x, lat |-> y, t_sec |-> t_orig, h_ibe |-> h_ibe]
       IN  disk' = [n \in DOMAIN disk \cup {out} |->
                       IF n = out THEN d ELSE disk[n]]
    /\ pc' = "print"
    /\ UNCHANGED <<IBEFILE, SUBSET_, t1, t2, x_ibe, y_ibe, t_ibe, z_ibe,
                   files, inputs, apply_, epoch, infile, x, y, t, t_orig,
                   h_ibe, call, ret>>

\* lines 397-398: report the file, then on to the next one
Report ==
    /\ pc = "print"
    /\ pc' = "for"
    /\ UNCHANGED <<mainvars, call, ret>>

Next ==
    \/ LoadCube
    \/ SubsetCube
    \/ ForFile
    \/ GetXyt
    \/ ConvertTime
    \/ WrapLons
    \/ Interpolate
    \/ WriteHeight
    \/ WriteHibe
    \/ Rename
    \/ Export
    \/ Report

Spec == Init /\ [][Next]_vars

----------------------------------------------------------------------------
(* Properties of the script *)

StrictlyIncreasing(a) == \A i \in 1..Len(a) - 1 : a[i] < a[i + 1]
StrictlyDecreasing(a) == \A i \in 1..Len(a) - 1 : a[i] > a[i + 1]
StrictlyMonotonic(a) == StrictlyIncreasing(a) \/ StrictlyDecreasing(a)

\* C1: in apply mode, once a file has been processed (written and renamed),
\* every stored height is the height the file came with minus the
\* correction computed for that observation, and the stored 'h_ibe' is the
\* computed correction itself.
C1_ApplySubtracts ==
    (pc = "print" /\ apply_) =>
        LET out == disk[OutName(infile)]
        IN  /\ out.h_ibe = h_ibe
            /\ Len(out.h_cor) = Len(inputs[infile].h_cor)
            /\ \A n \in 1..Len(h_ibe) :
                 out.h_cor[n] = RSub(inputs[infile].h_cor[n], h_ibe[n])

\* a file has been processed in apply mode with a correction that is not 0
C1_Witness ==
    /\ pc = "print" /\ apply_
    /\ \E n \in 1..Len(h_ibe) : h_ibe[n] # R(0)

\* C6: processing a file changes none of the cube's axes or values.
C6_CubeReadOnly ==
    [][pc \notin {"load", "subset"} =>
         <<t_ibe, y_ibe, x_ibe, z_ibe>>' = <<t_ibe, y_ibe, x_ibe, z_ibe>>]_vars

\* file f is on disk as it was given, under its own name only
Untouched(f) ==
    /\ InName(f) \in DOMAIN disk
    /\ OutName(f) \notin DOMAIN disk
    /\ disk[InName(f)] = inputs[f]

\* file f is on disk under the '_IBE.h5' name only, height corrected and
\* 'h_ibe' present
FullyCorrected(f) ==
    /\ InName(f) \notin DOMAIN disk
    /\ OutName(f) \in DOMAIN disk
    /\ "h_ibe" \in DOMAIN disk[OutName(f)]
    /\ disk[OutName(f)].h_cor =
         Corrected(inputs[f].h_cor, disk[OutName(f)].h_ibe)

\* C7: in apply mode the disk holds, for every file and at every point of
\* the run, either the original under its name or the fully corrected file
\* under the '_IBE.h5' name.
C7_ApplyAtomic ==
    apply_ => \A f \in 1..Len(files) : Untouched(f) \/ FullyCorrected(f)

\* a requested bound lies outside the time range of the cube file
WindowOutside ==
    LET yrs == t_year(IBEFILE.time)
    IN  RLt(R(t1), yrs[1]) \/ RLt(yrs[Len(yrs)], R(t2))

\* C8: with subsetting on and a bound outside the cube's time range, the
\* run ends in an error before any file is processed.
C8_OutsideWindowFails ==
    (SUBSET_ /\ WindowOutside) =>
        (infile = 0 /\ pc \in {"load", "subset", "error"})

\* C10: the longitude axis handed to interp3d is strictly increasing or
\* strictly decreasing.
C10_WrappedAxisMonotonic ==
    pc = "interp3d" => StrictlyMonotonic(x_ibe)

\* C8 as the script has it: with subsetting on, the run stops before the
\* first file exactly when no cube time lies in [t1, t2]; otherwise the
\* loop runs on the cube times that lie in the window, also when a bound is
\* outside the cube's range.
C8_EmptyWindowFails ==
    LET inside == {i \in 1..Len(IBEFILE.time) :
                     /\ (t1 - 1900) * 8760 <= IBEFILE.time[i]
                     /\ IBEFILE.time[i] <= (t2 - 1900) * 8760}
    IN  SUBSET_ =>
          /\ inside = {} => (infile = 0 /\ pc \in {"load", "subset", "error"})
          /\ (inside # {} /\ pc \notin {"load", "subset"}) =>
                /\ t_ibe = SubSeq(IBEFILE.time, Min(inside), Max(inside))
                /\ Len(z_ibe) = Len(t_ibe)

\* the loop has started on a window that reaches beyond the cube's times
C8_Witness ==
    /\ SUBSET_ /\ WindowOutside
    /\ pc = "get_xyt"
    /\ Len(t_ibe) < Len(IBEFILE.time)

----------------------------------------------------------------------------
(* Unit driver for the functions of ibecor.py: one call per behaviour *)

\* grid coordinates of a 1-D axis under test
AxisValues == {0, 10, 20, 30, 35}
\* longest axis handed to interp_pixels
MaxAxis == 4
\* target coordinates: nodes, points between nodes, points outside
Targets == {R(-5), R(0), R(5), R(10), <<25, 2>>, R(15), R(20), R(25),
            R(30), R(33), R(35), R(40)}

RECURSIVE Axes(_)
\* the sequences of n distinct axis values, in any order
Axes(n) ==
    IF n = 0 THEN {<<>>}
    ELSE {Append(p[1], p[2]) :
            p \in {q \in Axes(n - 1) \X AxisValues :
                     \A i \in 1..Len(q[1]) : q[1][i] # q[2]}}

PixelCalls ==
    {[fn |-> "interp_pixels", grid_coords |-> a, interp_coords |-> c] :
        a \in UNION {Axes(n) : n \in 1..MaxAxis}, c \in Targets}

\* axes of the cubes under test: increasing, decreasing, unevenly spaced,
\* and one that is neither increasing nor decreasing
CubeTimes == {<<0, 10>>, <<10, 0>>, <<0, 10, 30>>}
CubeLats == {<<-80, -70, -60>>, <<-60, -70, -80>>}
CubeLons == {<<0, 90, 180>>, <<180, 90, 0>>, <<-90, 30>>, <<0, 90, 180, -90>>}

\* each node coordinate of an axis and the points half way between
\* neighbouring nodes
Probes(a) ==
    {R(a[i]) : i \in 1..Len(a)} \cup
    {RNorm(a[i] + a[i + 1], 2) : i \in 1..Len(a) - 1}

CubeCalls ==
    {[fn |-> "interp3d", x |-> c[1], y |-> c[2], z |-> c[3],
      v |-> IbeField(c[1], c[2], c[3]),
      xi |-> <<q[1]>>, yi |-> <<q[2]>>, zi |-> <<q[3]>>] :
        c \in CubeTimes \X CubeLats \X CubeLons,
        q \in UNION {Probes(ta) \X Probes(ya) \X Probes(xa) :
                       ta \in CubeTimes, ya \in CubeLats, xa \in CubeLons}}

\* longitudes in and beyond the -180..180 and 0..360 conventions
LonValues == {-540, -360, -181, -180, -90, 0, 90, 179, 180, 181, 270, 359,
              360, 540, 541, 600, 720}

WrapCalls ==
    {[fn |-> "wrap_to_180", lon |-> <<a>>] : a \in LonValues} \cup
    {[fn |-> "wrap_to_180", lon |-> <<a, 181>>] : a \in LonValues}

\* epochs handed to secs_to_hours; the last is no calendar date
UnitEpochs == {<<1970, 1, 1, 0, 0, 0>>, <<1900, 1, 1, 0, 0, 0>>,
               <<2000, 2, 29, 12, 30, 0>>, <<1900, 2, 29, 0, 0, 0>>}
SecsValues == {0, 1800, 3600, -3600, 86400}

EpochCalls ==
    {[fn |-> "secs_to_hours", secs |-> sv, epoch1 |-> e1, epoch2 |-> e2] :
        sv \in SecsValues, e1 \in UnitEpochs, e2 \in UnitEpochs \cup {None}}

\* the script itself does not run in a unit behaviour
ScriptIdle ==
    /\ IBEFILE = <<>> /\ SUBSET_ = FALSE /\ t1 = 2002 /\ t2 = 2010
    /\ x_ibe = <<>> /\ y_ibe = <<>> /\ t_ibe = <<>> /\ z_ibe = <<>>
    /\ files = <<>> /\ inputs = <<>> /\ disk = <<>>
    /\ apply_ = FALSE /\ epoch = <<1970, 1, 1, 0, 0, 0>>
    /\ infile = 0
    /\ x = <<>> /\ y = <<>> /\ t = <<>> /\ t_orig = <<>> /\ h_ibe = <<>>

InitUnit ==
    /\ pc = "call"
    /\ call \in PixelCalls \cup CubeCalls \cup WrapCalls \cup EpochCalls
    /\ ret = NoCall
    /\ ScriptIdle

\* lines 226-231
CallInterpPixels ==
    /\ pc = "call" /\ call.fn = "interp_pixels"
    /\ ret' \in interp_pixels(call.grid_coords, call.interp_coords)
    /\ pc' = "done"
    /\ UNCHANGED <<mainvars, call>>

\* lines 203-242
CallInterp3d ==
    /\ pc = "call" /\ call.fn = "interp3d"
    /\ ret' \in interp3d(call.x, call.y, call.z, call.v,
                         call.xi, call.yi, call.zi)
    /\ pc' = "done"
    /\ UNCHANGED <<mainvars, call>>

\* lines 245-248: the first application
CallWrap ==
    /\ pc = "call" /\ call.fn = "wrap_to_180"
    /\ ret' = <<wrap_to_180(call.lon)>>
    /\ pc' = "again"
    /\ UNCHANGED <<mainvars, call>>

\* lines 245-248 applied to its own result, as line 367 does on the cube's
\* axis for every file after the first
CallWrapAgain ==
    /\ pc = "again"
    /\ ret' = Append(ret, wrap_to_180(ret[1]))
    /\ pc' = "done"
    /\ UNCHANGED <<mainvars, call>>

\* lines 159-169; the datetime constructors raise on an invalid date
CallSecsToHours ==
    /\ pc = "call" /\ call.fn = "secs_to_hours"
    /\ IF ValidDate(call.epoch1) /\ (call.epoch2 = None \/ ValidDate(call.epoch2))
       THEN /\ ret' = secs_to_hours(call.secs, call.epoch1, call.epoch2)
            /\ pc' = "done"
       ELSE /\ ret' = ret
            /\ pc' = "error"
    /\ UNCHANGED <<mainvars, call>>

NextUnit ==
    \/ CallInterpPixels
    \/ CallInterp3d
    \/ CallWrap
    \/ CallWrapAgain
    \/ CallSecsToHours

SpecUnit == InitUnit /\ [][NextUnit]_vars

----------------------------------------------------------------------------
(* Properties of the functions *)

\* the 0-based pixel index of the end of axis a that lies nearest to c,
\* for c outside the range of a strictly monotonic axis
NearestEnd(a, c) ==
    IF RLt(c, R(a[1])) = StrictlyIncreasing(a) THEN 0 ELSE Len(a) - 1

\* C2: on a strictly increasing or strictly decreasing axis of length M,
\* interp_pixels returns an index in [0, M-1]; a target on node i maps to
\* i; a target between two neighbouring nodes maps to the linear fraction
\* between their indices, whatever the spacing; a target outside the axis
\* maps to the index of the nearest end.
C2_InterpPixels ==
    (pc = "done" /\ call.fn = "interp_pixels"
       /\ StrictlyMonotonic(call.grid_coords)) =>
        LET a == call.grid_coords
            c == call.interp_coords
            M == Len(a)
            lo == Min({a[i] : i \in 1..M})
            hi == Max({a[i] : i \in 1..M})
        IN  /\ RLe(R(0), ret) /\ RLe(ret, R(M - 1))
            /\ \A i \in 1..M : R(a[i]) = c => ret = R(i - 1)
            /\ \A i \in 1..M - 1 :
                 (\/ RLt(R(a[i]), c) /\ RLt(c, R(a[i + 1]))
                  \/ RLt(R(a[i + 1]), c) /\ RLt(c, R(a[i]))) =>
                    ret = RAdd(R(i - 1),
                               RDiv(RSub(c, R(a[i])), R(a[i + 1] - a[i])))
            /\ (RLt(c, R(lo)) \/ RLt(R(hi), c)) => ret = R(NearestEnd(a, c))

\* 15 has been mapped to 1.5 on the decreasing axis [30, 20, 10, 0]
C2_Witness ==
    /\ pc = "done" /\ call.fn = "interp_pixels"
    /\ call.grid_coords = <<30, 20, 10, 0>>
    /\ call.interp_coords = R(15)
    /\ ret = <<3, 2>>

\* C3: on a cube whose three axes are each strictly increasing or strictly
\* decreasing, a query at the coordinates of node (k, j, i) returns
\* cube[k][j][i].
C3_NodeExact ==
    (pc = "done" /\ call.fn = "interp3d"
       /\ StrictlyMonotonic(call.x) /\ StrictlyMonotonic(call.y)
       /\ StrictlyMonotonic(call.z)) =>
        \A k \in 1..Len(call.x), j \in 1..Len(call.y), i \in 1..Len(call.z) :
            (/\ call.xi[1] = R(call.x[k])
             /\ call.yi[1] = R(call.y[j])
             /\ call.zi[1] = R(call.z[i])) =>
                ret[1] = R(call.v[k][j][i])

\* an inner node of a cube with a decreasing axis has been sampled
C3_Witness ==
    /\ pc = "done" /\ call.fn = "interp3d"
    /\ call.x = <<0, 10, 30>> /\ call.y = <<-60, -70, -80>>
    /\ call.z = <<180, 90, 0>>
    /\ call.xi = <<R(10)>> /\ call.yi = <<R(-70)>> /\ call.zi = <<R(0)>>
    /\ ret = <<R(call.v[2][2][3])>>

\* C4: wrap_to_180(wrap_to_180(x)) = wrap_to_180(x) for every longitude x.
C4_WrapIdempotent ==
    (pc = "done" /\ call.fn = "wrap_to_180") => ret[2] = ret[1]

\* C5 as stated: 0 s since 1970 is -613608 h since 1900.
C5_EpochNegated ==
    (pc = "done" /\ call.fn = "secs_to_hours" /\ call.secs = 0
       /\ call.epoch1 = <<1970, 1, 1, 0, 0, 0>>
       /\ call.epoch2 = <<1900, 1, 1, 0, 0, 0>>) => ret = R(-613608)

\* C5 as the function has it: 0 s since 1970 is +613608 h since 1900, the
\* number of hours from 1900-01-01 to 1970-01-01.
C5_EpochHours ==
    (pc = "done" /\ call.fn = "secs_to_hours" /\ call.secs = 0
       /\ call.epoch1 = <<1970, 1, 1, 0, 0, 0>>
       /\ call.epoch2 = <<1900, 1, 1, 0, 0, 0>>) => ret = R(613608)

\* secs_to_hours(0, (1970,1,1,0,0,0), (1900,1,1,0,0,0)) has returned
C5_Witness ==
    /\ pc = "done" /\ call.fn = "secs_to_hours" /\ call.secs = 0
    /\ call.epoch1 = <<1970, 1, 1, 0, 0, 0>>
    /\ call.epoch2 = <<1900, 1, 1, 0, 0, 0>>

----------------------------------------------------------------------------
(* convert_xy_ll.py: the projection dispatcher *)

\* np.sqrt on the perfect squares the driver hands it
RECURSIVE sqrt_between(_, _, _)
sqrt_between(n, lo, hi) ==
    IF lo >= hi THEN lo
    ELSE LET mid == (lo + hi + 1) \div 2
         IN  IF mid * mid <= n THEN sqrt_between(n, mid, hi)
             ELSE sqrt_between(n, lo, mid - 1)
sqrt(n) == sqrt_between(n, 0, 46340)

\* np.arctan2(b, a)*180.0/np.pi for points on the coordinate axes
arctan2_deg(b, a) ==
    IF b = 0 THEN (IF a >= 0 THEN 0 ELSE 180)
    ELSE IF b > 0 THEN 90 ELSE -90

\* np.cos and np.sin of a whole multiple of 90 degrees
cos_deg(d) == CASE d % 360 = 0 -> 1 [] d % 360 = 180 -> -1 [] OTHER -> 0
sin_deg(d) == CASE d % 360 = 90 -> 1 [] d % 360 = 270 -> -1 [] OTHER -> 0

\* BF.upper()
upper(bf) == CASE bf = "f" -> "F" [] bf = "b" -> "B" [] OTHER -> bf

\* 111.7
KmPerDeg == <<1117, 10>>

\* lines 103-106: lat/lon to polar stereographic x/y
PSNorth_forward(i1, i2) ==
    << [n \in 1..Len(i1) |->
          RMul(RMul(R(90 - i2[n]), KmPerDeg), R(cos_deg(i1[n])))],
       [n \in 1..Len(i1) |->
          RMul(RMul(R(90 - i2[n]), KmPerDeg), R(sin_deg(i1[n])))] >>

\* lines 108-113: polar stereographic x/y to lat/lon; 360 is added to the
\* negative entries of o1
PSNorth_backward(i1, i2) ==
    LET o1 == [n \in 1..Len(i1) |->
                 RSub(R(90), RDiv(R(sqrt(i1[n] * i1[n] + i2[n] * i2[n])),
                                  KmPerDeg))]
        o2 == [n \in 1..Len(i1) |-> R(arctan2_deg(i2[n], i1[n]))]
    IN  << [n \in 1..Len(i1) |->
              IF RLt(o1[n], R(0)) THEN RAdd(o1[n], R(360)) ELSE o1[n]],
           o2 >>

\* the codes of conversion_functions that need no projection library
ProjCodes == {"PSNorth", "4326"}

\* points on the axes of the polar stereographic plane, km: at the pole
\* and at latitudes 80, 40, 0, -10 and -20
PlaneRadii == {1117, 5585, 10053, 11170, 12287}
PlanePoints ==
    {<<0, 0>>} \cup
    UNION {{<<r, 0>>, <<0, r>>, <<-r, 0>>, <<0, -r>>} : r \in PlaneRadii}
\* geographic points (lon, lat) with lon a multiple of 90 degrees
GeoPoints == {0, 90, 180, 270, -90} \X {90, 80, 0, -10}

\* the (i1, i2) argument arrays made of one or two points
PointArrays(P) ==
    {<< <<p[1]>>, <<p[2]>> >> : p \in P} \cup
    {<< <<p[1], q[1]>>, <<p[2], q[2]>> >> : p \in P, q \in P}

ProjCalls ==
    {[fn |-> "convert_xy_ll", i1 |-> a[1], i2 |-> a[2], PROJ |-> c, BF |-> "B"] :
        a \in PointArrays(PlanePoints), c \in ProjCodes \cup {"3413"}} \cup
    {[fn |-> "convert_xy_ll", i1 |-> <<p[1]>>, i2 |-> <<p[2]>>, PROJ |-> c,
      BF |-> bf] :
        p \in GeoPoints, c \in ProjCodes, bf \in {"F", "f", "b", "X"}}

InitProj ==
    /\ pc = "call"
    /\ call \in ProjCalls
    /\ ret = NoCall
    /\ ScriptIdle

\* lines 45-46: an unknown code raises
CallUnknownProj ==
    /\ pc = "call" /\ call.fn = "convert_xy_ll"
    /\ call.PROJ \notin ProjCodes
    /\ pc' = "error"
    /\ UNCHANGED <<mainvars, call, ret>>

\* lines 48 and 118-119: pass_values
CallPassValues ==
    /\ pc = "call" /\ call.fn = "convert_xy_ll"
    /\ call.PROJ = "4326"
    /\ ret' = <<ToR(call.i1), ToR(call.i2)>>
    /\ pc' = "done"
    /\ UNCHANGED <<mainvars, call>>

\* lines 48 and 97-115: xy_ll_PSNorth; with BF neither 'F' nor 'B' the
\* return statement finds o1 unbound
CallPSNorth ==
    /\ pc = "call" /\ call.fn = "convert_xy_ll"
    /\ call.PROJ = "PSNorth"
    /\ IF upper(call.BF) = "F"
       THEN ret' = PSNorth_forward(call.i1, call.i2) /\ pc' = "done"
       ELSE IF upper(call.BF) = "B"
       THEN ret' = PSNorth_backward(call.i1, call.i2) /\ pc' = "done"
       ELSE ret' = ret /\ pc' = "error"
    /\ UNCHANGED <<mainvars, call>>

NextProj ==
    \/ CallUnknownProj
    \/ CallPassValues
    \/ CallPSNorth

SpecProj == InitProj /\ [][NextProj]_vars

\* C9: for 'PSNorth' backwards, every returned longitude (the arctangent)
\* lies in [0, 360), and the returned latitude (90 - r/111.7) is left as
\* computed.
C9_PSNorthLongitude ==
    (pc = "done" /\ call.PROJ = "PSNorth" /\ upper(call.BF) = "B") =>
        \A n \in 1..Len(call.i1) :
            /\ RLe(R(0), ret[2][n]) /\ RLt(ret[2][n], R(360))
            /\ ret[1][n] =
                 RSub(R(90),
                      RDiv(R(Abs(call.i1[n]) + Abs(call.i2[n])), KmPerDeg))

====
